---- MODULE Spec2Model ----
(***************************************************************************)
(* ArcX: one fetchRequest call (src/src/fetchRequest.ts, lines 85-192)     *)
(* against the global configuration of src/src/config.ts, configureArcX,   *)
(* and the two React bindings, useFetch and useFetchSuspense.              *)
(*                                                                         *)
(* An optional JavaScript value is a sequence of length at most one:       *)
(* <<>> is undefined, <<v>> is the value v.  A timer is an event that is   *)
(* pending until it fires; the milliseconds it was armed with are kept,    *)
(* the wall clock is not.                                                  *)
(***************************************************************************)
EXTENDS Integers, Sequences, FiniteSets, TLC

\* Largest retry budget the inputs are drawn from.
MaxRetries == 2

\* delay(2 ** attempt * 100)
BackoffBaseMs == 100

\* The timeout value, in milliseconds, of the calls that set a positive one.
TimeoutMs == 50

None == <<>>

Some(v) == <<v>>

\* Behaviours of a configured interceptor callback.
OnErrorModes == {"unset", "returns", "returnsValue", "throws"}

OnResponseModes == {"unset", "sync", "async", "throws", "rejects"}

\* HTTP status codes the transport answers with; response.ok is 200..299.
Statuses == {200, 404, 500}

ResponseOk(status) == status >= 200 /\ status <= 299

VARIABLES
    globalConfig,   \* the singleton of config.ts: [baseUrl, headers, interceptors]
    configLog,      \* the arguments of the configureArcX calls made, in order
    url,            \* the url argument of the call
    options,        \* the per-call FetchOptions
    pc,             \* where the async function is suspended
    startConfig,    \* globalConfig as it was when the call started (history)
    finalUrl,       \* let finalUrl (line 90), once built
    interceptors,   \* const interceptors (line 105), read once from globalConfig
    onRequestCalls, \* how often interceptors.onRequest was called
    config,         \* const config: RequestInit (line 118), once assembled
    requests,       \* every fetch(finalUrl, config) made, in order, with signal.aborted
                    \* and the number of configureArcX calls made before it
    attempt,        \* let attempt (line 151)
    aborted,        \* controller.signal.aborted
    timer,          \* the setTimeout of line 147: <<>>, or <<ms>> while pending
    settles,        \* whether the awaited transport operation settles by itself
    response,       \* the Response of the current attempt, when one arrived
    returned,       \* the value the promise resolved with
    thrown,         \* the error the promise rejected with
    events,         \* what the call has done so far, in order
    hook,           \* one component using useFetch
    suspense        \* one component using useFetchSuspense

vars == <<globalConfig, configLog, url, options, pc, startConfig, finalUrl,
          interceptors, onRequestCalls, config, requests, attempt, aborted, timer,
          settles, response, returned, thrown, events, hook, suspense>>

\* what no step of a fetchRequest call writes
outside == <<globalConfig, configLog, url, options, hook, suspense>>

\* what a fetchRequest call writes in its synchronous prefix only
built == <<startConfig, finalUrl, interceptors, onRequestCalls, config>>

\* ------------------------------------------------------------------ errors

\* new Error(`HTTP error: ${status} (${statusText}) - ${errorText} [URL: ...]`)
HttpErrorThrown(status, errorText) ==
    [kind |-> "Error", status |-> status, text |-> errorText]

\* fetch() rejecting for a network failure
TransportError == [kind |-> "TypeError", status |-> 0, text |-> "Failed to fetch"]

\* the rejection of an aborted fetch or body read
AbortError == [kind |-> "AbortError", status |-> 0, text |-> "aborted"]

\* response.json() rejecting on a body that is not JSON
ParseError == [kind |-> "SyntaxError", status |-> 0, text |-> "Unexpected token"]

\* what a throwing onResponse interceptor throws
OnResponseError == [kind |-> "Thrown", status |-> 0, text |-> "onResponse"]

\* what a throwing onError interceptor throws
OnErrorError == [kind |-> "Thrown", status |-> 0, text |-> "onError"]

\* throw new Error("Request failed after retries.")
FallbackError == [kind |-> "Error", status |-> 0, text |-> "Request failed after retries."]

\* ------------------------------------------------------------------ events

SendEv(n) == [type |-> "send", n |-> n, ms |-> 0, err |-> None]

FailEv(n, e) == [type |-> "fail", n |-> n, ms |-> 0, err |-> Some(e)]

OnErrorEv(n, e) == [type |-> "onError", n |-> n, ms |-> 0, err |-> Some(e)]

DelayEv(n, ms) == [type |-> "delay", n |-> n, ms |-> ms, err |-> None]

SuccessEv(n) == [type |-> "success", n |-> n, ms |-> 0, err |-> None]

\* the indices of the events of one type
EventsOf(type) == {i \in 1..Len(events) : events[i].type = type}

\* the number of requests handed to fetch()
sendCount == Cardinality(EventsOf("send"))

\* ------------------------------------------------------------------ helpers

RECURSIVE Pow2(_)
\* 2 ** n
Pow2(n) == IF n <= 0 THEN 1 ELSE 2 * Pow2(n - 1)

\* const maxRetries = options.retries ?? 0
maxRetries == IF options.retries = None THEN 0 ELSE options.retries[1]

\* if (options.timeout): undefined and 0 are both falsy
TimeoutArmed == options.timeout # None /\ options.timeout[1] # 0

\* BackoffDelay as the comment of line 185 has it: 100ms, 200ms, 400ms
BackoffDelay_FromHundred(n) == Pow2(n - 1) * BackoffBaseMs

\* 2 ** attempt * 100
BackoffDelay(n) == Pow2(n) * BackoffBaseMs

\* ------------------------------------------------------------------ interceptors

\* interceptors?.onRequest: what the callback returns, when there is one
onRequestOf(i) == IF i = None THEN None ELSE i[1].onRequest

\* interceptors?.onResponse: how the callback behaves, "unset" when there is none
onResponseOf(i) == IF i = None THEN "unset" ELSE i[1].onResponse

\* interceptors?.onError: how the callback behaves, "unset" when there is none
onErrorOf(i) == IF i = None THEN "unset" ELSE i[1].onError

\* ------------------------------------------------------------------ the URL

\* A string is the sequence of its pieces: a run of characters that no encoding
\* touches ("page", "https://api.test") or one character that an encoding may.

\* String(value) of a query parameter: string | number | boolean
String(v) ==
    CASE v.type = "number" -> IF v.num = 1 THEN <<"1">> ELSE <<"2">>
      [] v.type = "boolean" -> IF v.bool THEN <<"true">> ELSE <<"false">>
      [] OTHER -> v.str

\* percent-encoding as encodeURIComponent does it
FormEncodePiece_Percent(c) ==
    CASE c = " " -> <<"%20">>
      [] c = "&" -> <<"%26">>
      [] c = "=" -> <<"%3D">>
      [] c = "?" -> <<"%3F">>
      [] OTHER -> <<c>>

\* the application/x-www-form-urlencoded byte serializer of URLSearchParams
FormEncodePiece(c) ==
    CASE c = " " -> <<"+">>
      [] c = "&" -> <<"%26">>
      [] c = "=" -> <<"%3D">>
      [] c = "?" -> <<"%3F">>
      [] OTHER -> <<c>>

RECURSIVE FormEncode(_)
FormEncode(str) ==
    IF str = <<>> THEN <<>> ELSE FormEncodePiece(Head(str)) \o FormEncode(Tail(str))

RECURSIVE SearchParams(_)
\* new URLSearchParams(record).toString(): name=value pairs joined by "&"
SearchParams(entries) ==
    IF entries = <<>> THEN <<>>
    ELSE LET e == Head(entries)
             pair == FormEncode(e.key) \o <<"=">> \o FormEncode(String(e.value))
         IN  IF Tail(entries) = <<>> THEN pair
             ELSE pair \o <<"&">> \o SearchParams(Tail(entries))

\* lines 90-101 under a global config g: baseUrl + url, then "?" and the
\* parameters when queryParams is set
UrlUnder(g) ==
    LET prefixed == IF g.baseUrl # None /\ g.baseUrl[1] # <<>>
                    THEN g.baseUrl[1] \o url
                    ELSE url
    IN  IF options.queryParams # None
        THEN prefixed \o <<"?">> \o SearchParams(options.queryParams[1])
        ELSE prefixed

\* let finalUrl, as the call builds it
BuildUrl == UrlUnder(globalConfig)

\* ------------------------------------------------------------------ headers

\* A Record<string, string> is the sequence of its [key, value] entries in
\* insertion order, its keys distinct as written (case matters to an object).
HeaderNames == {"X-Id", "x-id", "Content-Type", "content-type"}

\* The case-insensitive name of a header, as the transport compares names.
Lower(name) ==
    CASE name = "X-Id" -> "x-id"
      [] name = "Content-Type" -> "content-type"
      [] OTHER -> name

\* the keys of a record
Keys(rec) == {rec[i].key : i \in 1..Len(rec)}

\* acc[key] = value: an existing key keeps its place, a new one goes last
SetKey(rec, key, value) ==
    IF key \in Keys(rec)
    THEN [i \in 1..Len(rec) |->
            IF rec[i].key = key THEN [key |-> key, value |-> value] ELSE rec[i]]
    ELSE Append(rec, [key |-> key, value |-> value])

RECURSIVE AssignAll(_, _)
\* for (const [key, value] of entries) acc[key] = value
AssignAll(acc, entries) ==
    IF entries = <<>> THEN acc
    ELSE AssignAll(SetKey(acc, Head(entries).key, Head(entries).value), Tail(entries))

\* toRecord: a HeadersInit is [shape, entries]; the entries of a Headers object
\* are what its forEach yields (lower-case names), those of a pair list its
\* pairs, those of a plain object its own properties.
toRecord(headersInit) ==
    IF headersInit = None THEN None
    ELSE LET h == headersInit[1]
         IN  CASE h.shape = "Headers" -> Some(AssignAll(<<>>, h.entries))
               [] h.shape = "pairs" -> Some(AssignAll(<<>>, h.entries))
               [] OTHER -> Some(h.entries)

\* mergeHeaders(a, b): reduce over the two records, undefined ones skipped
mergeHeaders(a, b) ==
    LET withA == IF a = None THEN <<>> ELSE AssignAll(<<>>, a[1])
    IN  IF b = None THEN withA ELSE AssignAll(withA, b[1])

\* { ...config.headers }: the own enumerable properties of the value; a
\* Headers object has none.
Spread(headersInit) ==
    IF headersInit = None THEN <<>>
    ELSE IF headersInit[1].shape = "Headers" THEN <<>>
    ELSE headersInit[1].entries

AsRecord(entries) == Some([shape |-> "record", entries |-> entries])

\* ------------------------------------------------------------------ the request

\* config.body && typeof config.body === "object" && !(body instanceof FormData)
IsStringified(body) ==
    /\ body # None
    /\ body[1].kind \notin {"string", "FormData"}

\* JSON.stringify(config.body)
JsonStringify(b) == [kind |-> "string", value |-> b.value, encoding |-> "json"]

\* lines 104-122 under a global config g:
\* { ...globalRequestInit, ...options, headers: mergedHeaders }
AssembledUnder(g) ==
    [headers |-> AsRecord(mergeHeaders(toRecord(g.headers),
                                       toRecord(options.headers))),
     body |-> options.body,
     method |-> options.method,
     signal |-> options.signal]

\* const config, as the call assembles it
Assembled == AssembledUnder(globalConfig)

\* config = interceptors.onRequest(config): the return value taken as the config
AfterOnRequest_ReplacesConfig(c) ==
    LET f == onRequestOf(globalConfig.interceptors)
    IN  IF f = None THEN c
        ELSE [headers |-> f[1].headers,
              body |-> f[1].body,
              method |-> f[1].method,
              signal |-> f[1].signal]

\* lines 125-127 with the interceptors i:
\* Object.assign(config, interceptors.onRequest(config))
AssignOnRequest(i, c) ==
    LET f == onRequestOf(i)
    IN  IF f = None THEN c
        ELSE [headers |-> IF f[1].headers = None THEN c.headers ELSE f[1].headers,
              body |-> IF f[1].body = None THEN c.body ELSE f[1].body,
              method |-> IF f[1].method = None THEN c.method ELSE f[1].method,
              signal |-> IF f[1].signal = None THEN c.signal ELSE f[1].signal]

\* lines 125-127, as the call runs them
AfterOnRequest(c) == AssignOnRequest(globalConfig.interceptors, c)

\* lines 130-140: a body that is an object and no FormData is stringified and
\* the Content-Type key of the header object is set
NormalizeBody(c) ==
    IF IsStringified(c.body)
    THEN [c EXCEPT !.headers = AsRecord(SetKey(Spread(c.headers), "Content-Type",
                                               "application/json")),
                   !.body = Some(JsonStringify(c.body[1]))]
    ELSE c

\* lines 143-144: config.signal = controller.signal
AttachSignal(c) == [c EXCEPT !.signal = Some("controller.signal")]

\* the config every fetch(finalUrl, config) of the call is given
FinalConfig == AttachSignal(NormalizeBody(AfterOnRequest(Assembled)))

\* ------------------------------------------------------------------ the loop

\* a loop that assembles the config again for each retry, without onRequest
LoopHead_AssemblesPerAttempt(n, evs) ==
    IF n <= maxRetries
    THEN /\ pc' = "AwaitFetch"
         /\ events' = Append(evs, SendEv(n))
         /\ requests' = Append(requests,
                [url |-> finalUrl'[1],
                 config |-> IF n = 0 THEN config'[1]
                            ELSE AttachSignal(NormalizeBody(Assembled)),
                 signalAborted |-> aborted,
                 configCalls |-> Len(configLog)])
         /\ settles' \in BOOLEAN
         /\ thrown' = thrown
    ELSE /\ pc' = "Failed"
         /\ events' = evs
         /\ requests' = requests
         /\ settles' = FALSE
         /\ thrown' = Some(FallbackError)

\* while (attempt <= maxRetries) { try { await fetch(finalUrl, config) ...
\* entered with the attempt counter n; past the loop is the fallback throw.
LoopHead(n, evs) ==
    IF n <= maxRetries
    THEN /\ pc' = "AwaitFetch"
         /\ events' = Append(evs, SendEv(n))
         /\ requests' = Append(requests, [url |-> finalUrl'[1], config |-> config'[1],
                                          signalAborted |-> aborted,
                                          configCalls |-> Len(configLog)])
         /\ settles' \in BOOLEAN
         /\ thrown' = thrown
    ELSE /\ pc' = "Failed"
         /\ events' = evs
         /\ requests' = requests
         /\ settles' = FALSE
         /\ thrown' = Some(FallbackError)

\* CatchBlock with onError moved after the test: called for the terminal
\* attempt only.
CatchBlock_NotifyTerminalOnly(error) ==
    LET failed == Append(events, FailEv(attempt, error))
        mode == onErrorOf(interceptors)
        notified == IF mode = "unset" THEN failed
                    ELSE Append(failed, OnErrorEv(attempt, error))
    IN  /\ response' = None
        /\ settles' = FALSE
        /\ requests' = requests
        /\ IF attempt = maxRetries
           THEN /\ pc' = "Failed"
                /\ thrown' = IF mode = "throws" THEN Some(OnErrorError) ELSE Some(error)
                /\ events' = notified
                /\ attempt' = attempt
           ELSE /\ pc' = "AwaitDelay"
                /\ thrown' = thrown
                /\ attempt' = attempt + 1
                /\ events' = Append(failed, DelayEv(attempt + 1, BackoffDelay(attempt + 1)))

\* catch (error) { onError?.(error); if (attempt === maxRetries) throw error;
\*                 attempt++; await delay(2 ** attempt * 100); }
CatchBlock(error) ==
    LET failed == Append(events, FailEv(attempt, error))
        mode == onErrorOf(interceptors)
        notified == IF mode = "unset" THEN failed
                    ELSE Append(failed, OnErrorEv(attempt, error))
    IN  /\ response' = None
        /\ settles' = FALSE
        /\ requests' = requests
        /\ IF mode = "throws"
           THEN /\ pc' = "Failed"
                /\ thrown' = Some(OnErrorError)
                /\ events' = notified
                /\ attempt' = attempt
           ELSE IF attempt = maxRetries
           THEN /\ pc' = "Failed"
                /\ thrown' = Some(error)
                /\ events' = notified
                /\ attempt' = attempt
           ELSE /\ pc' = "AwaitDelay"
                /\ thrown' = thrown
                /\ attempt' = attempt + 1
                /\ events' = Append(notified, DelayEv(attempt + 1, BackoffDelay(attempt + 1)))

\* ReturnResult with the return lost: the result is kept and the loop goes on.
ReturnResult_KeepLooping(value) ==
    /\ pc' = "AwaitFetch"
    /\ returned' = Some(value)
    /\ events' = Append(Append(events, SuccessEv(attempt)), SendEv(attempt))
    /\ response' = None
    /\ settles' = TRUE
    /\ UNCHANGED <<attempt, thrown, requests>>

\* return result
ReturnResult(value) ==
    /\ pc' = "Succeeded"
    /\ returned' = Some(value)
    /\ events' = Append(events, SuccessEv(attempt))
    /\ response' = None
    /\ settles' = FALSE
    /\ UNCHANGED <<attempt, thrown, requests>>

\* ------------------------------------------------------------------ actions

\* The synchronous prefix of fetchRequest: lines 89-152 and the first fetch().
Start ==
    /\ pc = "Idle"
    /\ startConfig' = Some(globalConfig)
    /\ finalUrl' = Some(BuildUrl)
    /\ interceptors' = globalConfig.interceptors
    /\ onRequestCalls' = IF onRequestOf(globalConfig.interceptors) = None THEN 0 ELSE 1
    /\ config' = Some(FinalConfig)
    /\ timer' = IF TimeoutArmed THEN Some(options.timeout[1]) ELSE None
    /\ attempt' = 0
    /\ LoopHead(0, events)
    /\ UNCHANGED <<outside, aborted, response, returned>>

\* setTimeout(() => controller.abort(), options.timeout) fires
AbortTimerFires ==
    /\ timer # None
    /\ timer' = None
    /\ aborted' = TRUE
    /\ UNCHANGED <<outside, built, pc, attempt, settles, response,
                   returned, thrown, events, requests>>

\* await fetch(...) resolves with a response
FetchResolves ==
    /\ pc = "AwaitFetch"
    /\ settles
    /\ ~aborted
    /\ \E status \in Statuses :
          /\ response' = Some(status)
          /\ pc' = IF ResponseOk(status) THEN "AwaitJson" ELSE "AwaitText"
    /\ settles' \in BOOLEAN
    /\ UNCHANGED <<outside, built, attempt, aborted, timer, returned,
                   thrown, events, requests>>

\* await fetch(...) rejects: the network failed
FetchRejects ==
    /\ pc = "AwaitFetch"
    /\ settles
    /\ ~aborted
    /\ CatchBlock(TransportError)
    /\ UNCHANGED <<outside, built, aborted, timer, returned>>

\* FetchAborted without config.signal = controller.signal: the abort reaches
\* no request.
FetchAborted_SignalDetached ==
    /\ pc = "AwaitFetch"
    /\ aborted
    /\ FALSE
    /\ UNCHANGED vars

\* await fetch(...) rejects: the signal is aborted
FetchAborted ==
    /\ pc = "AwaitFetch"
    /\ aborted
    /\ CatchBlock(AbortError)
    /\ UNCHANGED <<outside, built, aborted, timer, returned>>

\* await response.text().catch(() => "Unknown error"), then the throw of line 160
TextSettles ==
    /\ pc = "AwaitText"
    /\ \/ settles /\ ~aborted /\ CatchBlock(HttpErrorThrown(response[1], "body"))
       \/ settles /\ ~aborted /\ CatchBlock(HttpErrorThrown(response[1], "Unknown error"))
       \/ aborted /\ CatchBlock(HttpErrorThrown(response[1], "Unknown error"))
    /\ UNCHANGED <<outside, built, aborted, timer, returned>>

\* await response.json() resolves; onResponse is looked up in globalConfig again
JsonResolves_LiveInterceptors ==
    /\ pc = "AwaitJson"
    /\ settles
    /\ ~aborted
    /\ LET mode == onResponseOf(globalConfig.interceptors)
       IN  CASE mode = "unset" -> ReturnResult("parsed")
             [] mode = "throws" -> CatchBlock(OnResponseError) /\ returned' = returned
             [] OTHER -> /\ pc' = "AwaitOnResponse"
                         /\ settles' = TRUE
                         /\ UNCHANGED <<attempt, response, returned, thrown, events,
                                        requests>>
    /\ UNCHANGED <<outside, built, aborted, timer>>

\* await response.json() resolves; onResponse, when set, is called with the parse
JsonResolves ==
    /\ pc = "AwaitJson"
    /\ settles
    /\ ~aborted
    /\ LET mode == onResponseOf(interceptors)
       IN  CASE mode = "unset" -> ReturnResult("parsed")
             [] mode = "throws" -> CatchBlock(OnResponseError) /\ returned' = returned
             [] OTHER -> /\ pc' = "AwaitOnResponse"
                         /\ settles' = TRUE
                         /\ UNCHANGED <<attempt, response, returned, thrown, events,
                                        requests>>
    /\ UNCHANGED <<outside, built, aborted, timer>>

\* await response.json() rejects: the body is not JSON, or the read was aborted
JsonRejects ==
    /\ pc = "AwaitJson"
    /\ \/ settles /\ ~aborted /\ CatchBlock(ParseError)
       \/ aborted /\ CatchBlock(AbortError)
    /\ UNCHANGED <<outside, built, aborted, timer, returned>>

\* await interceptors.onResponse(result) settles and its value is dropped
OnResponseSettles_RawParse ==
    /\ pc = "AwaitOnResponse"
    /\ IF onResponseOf(interceptors) = "rejects"
       THEN CatchBlock(OnResponseError) /\ returned' = returned
       ELSE ReturnResult("parsed")
    /\ UNCHANGED <<outside, built, aborted, timer>>

\* result = await interceptors.onResponse(result) settles
OnResponseSettles ==
    /\ pc = "AwaitOnResponse"
    /\ IF onResponseOf(interceptors) = "rejects"
       THEN CatchBlock(OnResponseError) /\ returned' = returned
       ELSE ReturnResult("transformed")
    /\ UNCHANGED <<outside, built, aborted, timer>>

\* await delay(...) resolves and the loop condition is tested again
DelayResolves ==
    /\ pc = "AwaitDelay"
    /\ UNCHANGED <<outside, built, attempt, aborted, timer, response,
                   returned>>
    /\ LoopHead(attempt, events)

\* Most configureArcX calls of one run.
MaxConfigCalls == 2

ConfigFields == {"baseUrl", "headers", "interceptors"}

\* Object.assign(target, source): every own property of source is assigned
ObjectAssign(target, source) ==
    [field \in ConfigFields |->
        IF source[field] # None THEN source[field][1] ELSE target[field]]

\* a merge that descends into interceptors and keeps the callbacks not given
ConfigureArcX_MergesInterceptors(partial) ==
    /\ Len(configLog) < MaxConfigCalls
    /\ globalConfig' =
          LET assigned == ObjectAssign(globalConfig, partial)
              old == globalConfig.interceptors
              new == assigned.interceptors
          IN  IF old # None /\ new # None
              THEN [assigned EXCEPT !.interceptors = Some(
                       [onRequest |-> IF new[1].onRequest # None
                                      THEN new[1].onRequest ELSE old[1].onRequest,
                        onResponse |-> IF new[1].onResponse # "unset"
                                       THEN new[1].onResponse ELSE old[1].onResponse,
                        onError |-> IF new[1].onError # "unset"
                                    THEN new[1].onError ELSE old[1].onError])]
              ELSE assigned
    /\ configLog' = Append(configLog, partial)
    /\ UNCHANGED <<url, options, pc, built, requests, attempt, aborted, timer,
                   settles, response, returned, thrown, events, hook, suspense>>

\* configureArcX(config): Object.assign(globalConfig, config), nothing returned
ConfigureArcX(partial) ==
    /\ Len(configLog) < MaxConfigCalls
    /\ globalConfig' = ObjectAssign(globalConfig, partial)
    /\ configLog' = Append(configLog, partial)
    /\ UNCHANGED <<url, options, pc, built, requests, attempt, aborted, timer,
                   settles, response, returned, thrown, events, hook, suspense>>

Next ==
    \/ Start
    \/ AbortTimerFires
    \/ FetchResolves
    \/ FetchRejects
    \/ FetchAborted
    \/ TextSettles
    \/ JsonResolves
    \/ JsonRejects
    \/ OnResponseSettles
    \/ DelayResolves

\* ------------------------------------------------------------------ useFetch

\* what the steps of a fetchRequest call write
call == <<pc, built, requests, attempt, aborted, timer, settles, response,
          returned, thrown, events>>

\* Most fetches one component issues.
MaxFetches == 3

\* a call of one of the three state setters by a component in state h
SetterCall(h, setter, value) ==
    [setter |-> setter, value |-> value, mounted |-> h.phase = "mounted"]

\* lines 27-33: fetchData up to its await: setIsLoading(true), setError(null)
\* and fetchRequest(url, options) issued, in a component in state h
fetchData(h) ==
    [h EXCEPT !.isLoading = TRUE,
              !.error = None,
              !.issued = @ + 1,
              !.inFlight = @ \cup {h.issued + 1},
              !.updates = @ \o <<SetterCall(h, "setIsLoading", "true"),
                                 SetterCall(h, "setError", "null")>>]

\* lines 33-38 with the fetch resolved: setData(result), then the finally block
ThenBlock(h, id) ==
    [h EXCEPT !.data = Some(id),
              !.isLoading = FALSE,
              !.inFlight = @ \ {id},
              !.updates = @ \o <<SetterCall(h, "setData", "result"),
                                 SetterCall(h, "setIsLoading", "false")>>]

\* lines 34-38 with the fetch rejected: setError(err), then the finally block
CatchThenFinally(h, id) ==
    [h EXCEPT !.error = Some(id),
              !.isLoading = FALSE,
              !.inFlight = @ \ {id},
              !.updates = @ \o <<SetterCall(h, "setError", "err"),
                                 SetterCall(h, "setIsLoading", "false")>>]

\* the component mounts: the effect of lines 41-53 runs and fetches unless manual
Mount ==
    /\ hook # None
    /\ hook.phase = "created"
    /\ LET mounted == [hook EXCEPT !.phase = "mounted"]
       IN  hook' = IF hook.manual THEN mounted ELSE fetchData(mounted)
    /\ UNCHANGED <<globalConfig, configLog, url, options, call, suspense>>

\* refetch() is called, or url or options change and the effect runs again
Refetch ==
    /\ hook # None
    /\ hook.phase = "mounted"
    /\ hook.issued < MaxFetches
    /\ hook' = fetchData(hook)
    /\ UNCHANGED <<globalConfig, configLog, url, options, call, suspense>>

\* the component unmounts: the cleanup of lines 49-51 sets isMounted = false,
\* a variable that only the empty then-callback of lines 45-47 reads
Unmount ==
    /\ hook # None
    /\ hook.phase = "mounted"
    /\ hook' = [hook EXCEPT !.phase = "unmounted"]
    /\ UNCHANGED <<globalConfig, configLog, url, options, call, suspense>>

\* the fetchRequest of one fetchData call resolves
FetchFulfilled(id) ==
    /\ hook # None
    /\ id \in hook.inFlight
    /\ hook' = ThenBlock(hook, id)
    /\ UNCHANGED <<globalConfig, configLog, url, options, call, suspense>>

\* the fetchRequest of one fetchData call rejects
FetchRejected(id) ==
    /\ hook # None
    /\ id \in hook.inFlight
    /\ hook' = CatchThenFinally(hook, id)
    /\ UNCHANGED <<globalConfig, configLog, url, options, call, suspense>>

HookNext ==
    \/ Mount
    \/ Refetch
    \/ Unmount
    \/ \E id \in 1..MaxFetches : FetchFulfilled(id)
    \/ \E id \in 1..MaxFetches : FetchRejected(id)

\* ------------------------------------------------------------------ useFetchSuspense

\* Most times one component is rendered.
MaxRenders == 4

\* lines 33-45 of one invocation, given its locals: throw error, throw promise
\* or return result
Outcome(result, error) ==
    IF error # None THEN "threwError"
    ELSE IF result = None THEN "threwPromise"
    ELSE "returned"

\* One invocation of useFetchSuspense(url, options), by a render. Its locals
\* result and error are undefined when lines 33-45 run: the callbacks of
\* lines 24-31 that assign them run only after the invocation has ended.
Render ==
    /\ suspense # None
    /\ Len(suspense.invocations) < MaxRenders
    /\ LET id == Len(suspense.invocations) + 1
           invocation == [request |-> id,
                          settledBefore |-> DOMAIN suspense.settled,
                          outcome |-> Outcome(None, None)]
       IN  suspense' = [suspense EXCEPT !.invocations = Append(@, invocation)]
    /\ UNCHANGED <<globalConfig, configLog, url, options, call, hook>>

\* the fetchRequest of one invocation resolves or rejects; the callback of
\* lines 25-30 assigns a local of that invocation, which nothing reads again
RequestSettles(id, how) ==
    /\ suspense # None
    /\ id \in 1..Len(suspense.invocations)
    /\ id \notin DOMAIN suspense.settled
    /\ suspense' = [suspense EXCEPT !.settled = @ @@ (id :> how)]
    /\ UNCHANGED <<globalConfig, configLog, url, options, call, hook>>

SuspenseNext ==
    \/ Render
    \/ \E id \in 1..MaxRenders : RequestSettles(id, "fulfilled")
    \/ \E id \in 1..MaxRenders : RequestSettles(id, "rejected")

\* ------------------------------------------------------------------ inputs

\* Most entries a per-call header container holds.
MaxHeaders == 2

Entry(k, v) == [key |-> k, value |-> v]

\* the sequences of at most n entries with the given names and value
EntrySeqs(names, value, n) ==
    UNION {[1..m -> {Entry(k, value) : k \in names}] : m \in 0..n}

DistinctKeys(entries) ==
    \A i, j \in 1..Len(entries) : entries[i].key = entries[j].key => i = j

\* a Headers object iterates lower-case names, each once, in sorted order
HeadersOrder(entries) ==
    /\ \A i \in 1..Len(entries) : entries[i].key = Lower(entries[i].key)
    /\ \A i, j \in 1..Len(entries) :
          i < j => (entries[i].key = "content-type" /\ entries[j].key = "x-id")

HeaderInits(value, n) ==
    {[shape |-> "record", entries |-> e] :
        e \in {x \in EntrySeqs(HeaderNames, value, n) : DistinctKeys(x)}}
    \cup {[shape |-> "pairs", entries |-> e] : e \in EntrySeqs(HeaderNames, value, n)}
    \cup {[shape |-> "Headers", entries |-> e] :
        e \in {x \in EntrySeqs(HeaderNames, value, n) : HeadersOrder(x)}}

\* globalConfig.headers: Record<string, string>, {} at first
GlobalHeaders ==
    {Some(h) : h \in {x \in HeaderInits("g", 1) : x.shape = "record"}}

CallHeaders == {None} \cup {Some(h) : h \in HeaderInits("p", MaxHeaders)}

Body(kind) == [kind |-> kind, value |-> kind, encoding |-> "raw"]

Bodies ==
    {None} \cup
    {Some(Body(k)) : k \in {"string", "plain", "FormData", "Blob", "ArrayBuffer"}}

\* what an onRequest interceptor returns: the fields it sets
OnRequestReturns ==
    [headers : {None,
                Some([shape |-> "record", entries |-> <<Entry("Content-Type", "r")>>]),
                Some([shape |-> "record", entries |-> <<Entry("content-type", "r")>>]),
                Some([shape |-> "Headers", entries |-> <<Entry("x-id", "r")>>])},
     body : {None, Some(Body("plain"))},
     method : {None, Some("PUT")},
     signal : {None, Some("interceptor.signal")}]

OnRequests == {None} \cup {Some(r) : r \in OnRequestReturns}

Retries == {None} \cup {Some(n) : n \in -1..MaxRetries}

Timeouts == {None, Some(0), Some(TimeoutMs)}

\* Most query parameters a call passes.
MaxParams == 2

QString(str) == [type |-> "string", str |-> str, num |-> 0, bool |-> FALSE]

QNumber(n) == [type |-> "number", str |-> <<>>, num |-> n, bool |-> FALSE]

QBoolean(b) == [type |-> "boolean", str |-> <<>>, num |-> 0, bool |-> b]

\* queryParams: Record<string, string | number | boolean>
QueryParams ==
    LET values == {QString(<<"x">>), QString(<<"a", " ", "b">>),
                   QString(<<"a", "&", "b">>), QNumber(1), QBoolean(TRUE)}
        entries == {Entry(k, v) : k \in {<<"page">>, <<"q">>, <<"a", " ", "b">>},
                                  v \in values}
    IN  {None} \cup
        {Some(e) : e \in {x \in UNION {[1..m -> entries] : m \in 0..MaxParams} :
                              DistinctKeys(x)}}

BaseUrls == {None, Some(<<>>), Some(<<"https://api.test">>)}

Paths == {<<"/users">>, <<"/users", "?", "page", "=", "1">>}

\* the interceptors of one configuration, or none
Interceptors(onRequests, onResponses, onErrors) ==
    {Some(i) : i \in [onRequest : onRequests,
                      onResponse : onResponses,
                      onError : onErrors]}

InitCall ==
    /\ pc = "Idle"
    /\ configLog = <<>>
    /\ startConfig = None
    /\ finalUrl = None
    /\ interceptors = None
    /\ onRequestCalls = 0
    /\ requests = <<>>
    /\ config = None
    /\ attempt = 0
    /\ aborted = FALSE
    /\ timer = None
    /\ settles = FALSE
    /\ response = None
    /\ returned = None
    /\ thrown = None
    /\ events = <<>>

\* Every retry budget, timeout and interceptor behaviour, over a few requests.
Init ==
    /\ globalConfig \in
          [baseUrl : {Some(<<"https://api.test">>)},
           headers : {Some([shape |-> "record", entries |-> <<Entry("X-Id", "g")>>])},
           interceptors :
               Interceptors({None, Some([headers |-> None, body |-> None,
                                         method |-> Some("PUT"), signal |-> None])},
                            OnResponseModes, OnErrorModes)]
    /\ url = <<"/users">>
    /\ options \in
          [headers : {None, Some([shape |-> "Headers", entries |-> <<Entry("x-id", "p")>>])},
           body : {Some(Body("plain"))},
           method : {None},
           signal : {None},
           queryParams : {None},
           retries : Retries,
           timeout : Timeouts]
    /\ InitCall
    /\ hook = None
    /\ suspense = None

Spec == Init /\ [][Next]_vars

\* Timers fire, microtasks run and an aborted operation rejects; a transport
\* operation settles only when the remote end answers (settles).
FairSpec == Spec /\ WF_vars(Next)

\* Every header container, body and onRequest interceptor, over a few budgets.
InitBuild ==
    /\ globalConfig \in
          [baseUrl : {None},
           headers : GlobalHeaders,
           interceptors :
               Interceptors(OnRequests, {"async"}, {"unset"})]
    /\ url = <<"/users">>
    /\ options \in
          [headers : CallHeaders,
           body : Bodies,
           method : {None, Some("POST")},
           signal : {None, Some("caller.signal")},
           queryParams : {None},
           retries : {Some(1)},
           timeout : {Some(TimeoutMs)}]
    /\ InitCall
    /\ hook = None
    /\ suspense = None

BuildSpec == InitBuild /\ [][Start]_vars

\* Every base URL, path and set of query parameters.
InitUrl ==
    /\ globalConfig \in [baseUrl : BaseUrls, headers : {None}, interceptors : {None}]
    /\ url \in Paths
    /\ options \in
          [headers : {None}, body : {None}, method : {None}, signal : {None},
           queryParams : QueryParams, retries : {None}, timeout : {None}]
    /\ InitCall
    /\ hook = None
    /\ suspense = None

UrlSpec == InitUrl /\ [][Start]_vars

\* A component that uses useFetch, before its first render commits.
InitHook ==
    /\ globalConfig = [baseUrl |-> None, headers |-> None, interceptors |-> None]
    /\ url = <<"/users">>
    /\ options = [headers |-> None, body |-> None, method |-> None, signal |-> None,
                  queryParams |-> None, retries |-> None, timeout |-> None]
    /\ InitCall
    /\ suspense = None
    /\ hook \in [phase : {"created"}, manual : BOOLEAN, data : {None}, error : {None},
                  isLoading : {FALSE}, issued : {0}, inFlight : {{}},
                  updates : {<<>>}]

HookSpec == InitHook /\ [][HookNext]_vars

\* A component that uses useFetchSuspense, before its first render.
InitSuspense ==
    /\ globalConfig = [baseUrl |-> None, headers |-> None, interceptors |-> None]
    /\ url = <<"/users">>
    /\ options = [headers |-> None, body |-> None, method |-> None, signal |-> None,
                  queryParams |-> None, retries |-> None, timeout |-> None]
    /\ InitCall
    /\ hook = None
    /\ suspense = [invocations |-> <<>>, settled |-> <<>>]

SuspenseSpec == InitSuspense /\ [][SuspenseNext]_vars

\* globalConfig: ArcXConfig = {}
EmptyConfig == [field \in ConfigFields |-> None]

\* what a caller passes to configureArcX: a field is left out (None), or given
\* with a value, undefined included
Partials ==
    [baseUrl : {None} \cup {Some(b) : b \in BaseUrls},
     headers : {None, Some(Some([shape |-> "record",
                                 entries |-> <<Entry("X-Id", "g")>>]))},
     interceptors : {None} \cup
         {Some(i) : i \in Interceptors({None}, {"unset", "sync"}, {"unset", "returns"})}]

\* The module as imported, before any call.
InitConfig ==
    /\ globalConfig = EmptyConfig
    /\ url = <<"/users">>
    /\ options = [headers |-> None, body |-> None, method |-> None, signal |-> None,
                  queryParams |-> None, retries |-> None, timeout |-> None]
    /\ InitCall
    /\ hook = None
    /\ suspense = None

Configure == \E partial \in Partials : ConfigureArcX(partial)

ConfigSpec == InitConfig /\ [][Configure]_vars

\* the global config a call is started under, every interceptor set
ConfigAtFirst ==
    [baseUrl |-> Some(<<"https://api.test">>),
     headers |-> Some([shape |-> "record", entries |-> <<Entry("X-Id", "g")>>]),
     interceptors |-> Some([onRequest |-> Some([headers |-> None, body |-> None,
                                                method |-> Some("PUT"),
                                                signal |-> None]),
                            onResponse |-> "sync",
                            onError |-> "returns"])]

\* configureArcX arguments that change what a call would read: every field
\* with failing interceptors, the interceptors alone with none set, the
\* baseUrl alone
LaterPartials ==
    {[baseUrl |-> Some(None),
      headers |-> Some(Some([shape |-> "record", entries |-> <<Entry("x-id", "g")>>])),
      interceptors |-> Some(Some([onRequest |-> None, onResponse |-> "rejects",
                                  onError |-> "throws"]))],
     [baseUrl |-> None,
      headers |-> None,
      interceptors |-> Some(Some([onRequest |-> None, onResponse |-> "unset",
                                  onError |-> "unset"]))],
     [baseUrl |-> Some(Some(<<>>)), headers |-> None, interceptors |-> None]}

\* One call with a retry, a timeout or none, under the first config.
InitInFlight ==
    /\ globalConfig = ConfigAtFirst
    /\ url = <<"/users">>
    /\ options \in
          [headers : {Some([shape |-> "Headers", entries |-> <<Entry("x-id", "p")>>])},
           body : {Some(Body("plain"))},
           method : {None},
           signal : {None},
           queryParams : {Some(<<Entry(<<"page">>, QNumber(1))>>)},
           retries : {Some(1)},
           timeout : {None, Some(TimeoutMs)}]
    /\ InitCall
    /\ hook = None
    /\ suspense = None

ConfigureLater == \E partial \in LaterPartials : ConfigureArcX(partial)

\* configureArcX calls at any point before, during and after the call
InFlightSpec == InitInFlight /\ [][Next \/ ConfigureLater]_vars

\* ------------------------------------------------------------------ properties

Terminal == {"Succeeded", "Failed"}

\* the error of the attempt that failed last
LastFailure ==
    LET fails == EventsOf("fail")
    IN  events[CHOOSE i \in fails : \A j \in fails : j <= i].err

\* how many delays have been awaited up to event i
DelaysUpTo(i) == Cardinality({j \in EventsOf("delay") : j <= i})

\* C1: a call whose every attempt fails sends the request exactly N+1 times
\* (N = options.retries ?? 0, N >= 0) and then ends in a terminal failure.
C1_FailedAfterAllAttempts ==
    (pc = "Failed" /\ maxRetries >= 0) => sendCount = maxRetries + 1

\* C2: once an attempt succeeds the call returns at once: the success is the
\* last thing the call does (no request, backoff or onError follows it), the
\* call is over and holds the result, whatever retry budget remains.
C2_SuccessEndsCall ==
    \A i \in EventsOf("success") :
        /\ i = Len(events)
        /\ pc = "Succeeded"
        /\ returned # None
        /\ Cardinality(EventsOf("success")) = 1

\* C2 witness: a call that succeeded on a retry with budget left.
C2_Witness ==
    /\ pc = "Succeeded"
    /\ attempt >= 1
    /\ attempt < maxRetries

\* the call has one outcome exactly when it is over, and never both
OutcomeConsistent ==
    /\ ~(returned # None /\ thrown # None)
    /\ (pc = "Succeeded") <=> (returned # None)
    /\ (pc = "Failed") <=> (thrown # None)

\* the call awaits a transport operation that nothing will ever settle
PendingForever ==
    /\ pc \in {"AwaitFetch", "AwaitText", "AwaitJson"}
    /\ ~settles
    /\ ~aborted
    /\ timer = None

\* C3 as stated: every call ends in exactly one of the two outcomes, a result
\* or an error; none produces both and none stays forever with neither.
C3_AlwaysExactlyOneOutcome ==
    /\ []OutcomeConsistent
    /\ <>(pc \in Terminal)

\* C3 as amended: no call produces both outcomes, a call that is over has
\* exactly one, and every call is eventually over unless it awaits a transport
\* operation that never settles while no timeout is armed (unset, or 0): such
\* a call stays pending with neither outcome.
C3_OneOutcomeUnlessPendingForever ==
    /\ []OutcomeConsistent
    /\ [](PendingForever => ~TimeoutArmed)
    /\ <>(pc \in Terminal \/ PendingForever)

\* C3 witness: a request to a silent transport under timeout 0, never cancelled.
C3_Witness ==
    /\ PendingForever
    /\ pc = "AwaitFetch"
    /\ options.timeout = Some(0)
    /\ returned = None
    /\ thrown = None

\* C4: the terminal error is an HttpError carrying the status code when the
\* last attempt got a non-2xx response, and a NetworkTransportError otherwise.
C4_TerminalErrorClassified ==
    (pc = "Failed" /\ maxRetries >= 0) =>
        /\ thrown[1].kind \in {"HTTPError", "NetworkError"}
        /\ LastFailure[1].status # 0 =>
              (thrown[1].kind = "HTTPError" /\ thrown[1].status = LastFailure[1].status)
        /\ LastFailure[1].status = 0 => thrown[1].kind = "NetworkError"

\* C5: with a timeout set, a request the transport never answers is cancelled
\* and the call eventually fails with a NetworkTransportError.
C5_TimeoutFailsAsNetworkError ==
    (options.timeout # None /\ pc = "AwaitFetch" /\ ~settles)
        ~> (pc = "Failed" /\ thrown[1].kind = "NetworkError")

\* C6: with onError configured, every failed attempt is followed at once, before
\* anything else the call does, by one onError call with that attempt's error,
\* retried and terminal attempts alike; onError is called at no other time.
C6_OnErrorOncePerFailure ==
    LET set == onErrorOf(interceptors) # "unset"
    IN  /\ \A i \in EventsOf("fail") :
              set => /\ i < Len(events)
                     /\ events[i + 1] = OnErrorEv(events[i].n, events[i].err[1])
        /\ \A i \in EventsOf("onError") :
              /\ set
              /\ i > 1
              /\ events[i - 1].type = "fail"
        /\ set => Cardinality(EventsOf("onError")) = Cardinality(EventsOf("fail"))
        /\ \A i \in EventsOf("send") :
              \A j \in EventsOf("fail") : (set /\ j < i) => j + 1 < i

\* C6 witness: a failed call that notified onError for a retried attempt and
\* for the terminal one.
C6_Witness ==
    /\ pc = "Failed"
    /\ onErrorOf(interceptors) = "returns"
    /\ Cardinality(EventsOf("onError")) >= 2
    /\ Cardinality(EventsOf("send")) >= 2

\* C7: onError changes nothing: whatever it does, a failed call made its
\* retries+1 attempts with the backoffs between them and surfaces the error of
\* its final attempt.
C7_OnErrorChangesNothing ==
    (pc = "Failed" /\ maxRetries >= 0) =>
        /\ thrown = LastFailure
        /\ sendCount = maxRetries + 1
        /\ Cardinality(EventsOf("delay")) = maxRetries

EntriesOf(headersInit) == IF headersInit = None THEN <<>> ELSE headersInit[1].entries

\* the case-insensitive names a sequence of entries holds
NamesIn(entries) == {Lower(entries[i].key) : i \in 1..Len(entries)}

\* the entries of a sequence under one case-insensitive name
Under(entries, name) == {i \in 1..Len(entries) : Lower(entries[i].key) = name}

\* C9: in the headers the call sends, a header name given both globally and per
\* call (names compared without case) has a single entry and the per-call value;
\* a name given by one of the two only is kept with its value.
C9_PerCallHeaderWins ==
    (config # None /\ onRequestOf(interceptors) = None
        /\ ~IsStringified(options.body)) =>
        LET sent == EntriesOf(config[1].headers)
            g == NamesIn(EntriesOf(globalConfig.headers))
            p == NamesIn(EntriesOf(options.headers))
        IN  /\ \A n \in g \cap p :
                  /\ Cardinality(Under(sent, n)) = 1
                  /\ \A i \in Under(sent, n) : sent[i].value = "p"
            /\ \A n \in g \ p :
                  /\ Under(sent, n) # {}
                  /\ \A i \in Under(sent, n) : sent[i].value = "g"
            /\ \A n \in p \ g :
                  /\ Under(sent, n) # {}
                  /\ \A i \in Under(sent, n) : sent[i].value = "p"
            /\ NamesIn(sent) = g \cup p

\* C10: a plain structured body (after onRequest) is sent as its JSON text with
\* exactly one Content-Type header, application/json, whatever Content-Type the
\* defaults, the call or onRequest had set; every other header is kept.
C10_JsonBodyContentType ==
    LET before == AfterOnRequest(Assembled)
    IN  (config # None /\ before.body # None /\ before.body[1].kind = "plain") =>
            LET sent == EntriesOf(config[1].headers)
                prior == EntriesOf(before.headers)
            IN  /\ config[1].body =
                      Some([kind |-> "string", value |-> "plain", encoding |-> "json"])
                /\ Cardinality(Under(sent, "content-type")) = 1
                /\ \A i \in Under(sent, "content-type") :
                      sent[i].value = "application/json"
                /\ \A j \in 1..Len(prior) :
                      Lower(prior[j].key) # "content-type" =>
                          \E i \in 1..Len(sent) : sent[i] = prior[j]

\* the value the claim gives a field of the config: the interceptor's when its
\* return value has the field, the assembled one when it has not
Overridden(field) ==
    LET f == onRequestOf(globalConfig.interceptors)[1]
    IN  IF f[field] # None THEN f[field] ELSE Assembled[field]

\* C11 as stated: with an onRequest interceptor, every field of the config the
\* request is sent with is the interceptor's where it returned one and the
\* assembled one where it did not.
C11_EveryFieldOverridesRequest ==
    (config # None /\ onRequestOf(globalConfig.interceptors) # None) =>
        \A field \in {"headers", "body", "method", "signal"} :
            config[1][field] = Overridden(field)

\* C11 amended: with an onRequest interceptor, method is the interceptor's where it
\* returned one and the assembled one where it did not; so are body and headers
\* unless the resulting body is an object other than FormData, which is sent as
\* its JSON text with a Content-Type: application/json header; signal is the
\* call's own AbortController signal whatever was returned.
C11_OverridesBeforeBodyAndSignal ==
    (config # None /\ onRequestOf(globalConfig.interceptors) # None) =>
        /\ config[1].method = Overridden("method")
        /\ config[1].signal = Some("controller.signal")
        /\ IF IsStringified(Overridden("body"))
           THEN LET sent == EntriesOf(config[1].headers)
                IN  /\ config[1].body = Some(JsonStringify(Overridden("body")[1]))
                    /\ \E i \in 1..Len(sent) :
                          sent[i] = Entry("Content-Type", "application/json")
           ELSE /\ config[1].body = Overridden("body")
                /\ config[1].headers = Overridden("headers")

\* an interceptor that returned a method and a signal and left body and headers out
C11_Witness ==
    /\ config # None
    /\ onRequestOf(globalConfig.interceptors) # None
    /\ onRequestOf(globalConfig.interceptors)[1] =
          [headers |-> None, body |-> None,
           method |-> Some("PUT"), signal |-> Some("interceptor.signal")]
    /\ options.method = Some("POST")
    /\ options.body = Some(Body("string"))
    /\ config[1].method = Some("PUT")
    /\ config[1].body = options.body

\* C12: a call that succeeds returns what onResponse made of the parsed body,
\* whether onResponse returned it or a promise of it, when the interceptor is
\* configured, and the parsed body itself when it is not; a call whose
\* onResponse throws or rejects does not succeed.
C12_OnResponseResultReturned ==
    pc = "Succeeded" =>
        LET mode == onResponseOf(interceptors)
        IN  /\ mode \in {"unset", "sync", "async"}
            /\ returned = Some(IF mode = "unset" THEN "parsed" ELSE "transformed")

\* a call that succeeded on a retry through an asynchronous onResponse
C12_Witness ==
    /\ pc = "Succeeded"
    /\ onResponseOf(interceptors) = "async"
    /\ returned = Some("transformed")
    /\ attempt = 1

\* the calls of configLog that contained a field
Containing(field) == {i \in 1..Len(configLog) : configLog[i][field] # None}

\* C13: after any sequence of configureArcX calls each field of the global
\* config is the value of the most recent call that contained it, a field no
\* call contained is as it was at first, interceptors is the object of that
\* call as a whole, and a further call is always possible and completes.
C13_LastCallWinsPerField ==
    /\ \A field \in ConfigFields :
          IF Containing(field) = {}
          THEN globalConfig[field] = EmptyConfig[field]
          ELSE LET last == CHOOSE i \in Containing(field) :
                               \A j \in Containing(field) : j <= i
               IN  globalConfig[field] = configLog[last][field][1]
    /\ Len(configLog) < MaxConfigCalls =>
          \A partial \in Partials : ENABLED ConfigureArcX(partial)

\* an onError set by one call is gone after a call that gave interceptors
\* without it, while the baseUrl of the first call stays
C13_Witness ==
    /\ Len(configLog) = 2
    /\ configLog[1].interceptors # None
    /\ onErrorOf(configLog[1].interceptors[1]) = "returns"
    /\ configLog[1].baseUrl = Some(Some(<<"https://api.test">>))
    /\ configLog[2].interceptors # None
    /\ onResponseOf(configLog[2].interceptors[1]) = "sync"
    /\ onErrorOf(configLog[2].interceptors[1]) = "unset"
    /\ configLog[2].baseUrl = None
    /\ onErrorOf(globalConfig.interceptors) = "unset"
    /\ globalConfig.baseUrl = Some(<<"https://api.test">>)

\* a name or value of the query string, a space written as the given text
Escaped(str, space) ==
    [i \in 1..Len(str) |->
        CASE str[i] = " " -> space
          [] str[i] = "&" -> "%26"
          [] str[i] = "=" -> "%3D"
          [] str[i] = "?" -> "%3F"
          [] OTHER -> str[i]]

RECURSIVE Joined(_, _, _)
\* entries from..Len as key=String(value), "&" between them
Joined(entries, from, space) ==
    IF from > Len(entries) THEN <<>>
    ELSE (IF from > 1 THEN <<"&">> ELSE <<>>)
         \o Escaped(entries[from].key, space) \o <<"=">>
         \o Escaped(String(entries[from].value), space)
         \o Joined(entries, from + 1, space)

\* baseUrl (empty when unset), the path and, with queryParams, "?" and the entries
UrlWith(space) ==
    (IF globalConfig.baseUrl = None THEN <<>> ELSE globalConfig.baseUrl[1])
    \o url
    \o (IF options.queryParams = None THEN <<>>
        ELSE <<"?">> \o Joined(options.queryParams[1], 1, space))

\* C14 as stated: the URL is baseUrl, the path and, when queryParams is present,
\* "?" and the entries in insertion order as key=String(value) joined by "&",
\* a space written %20.
C14_UrlSpaceAsPercent20 ==
    finalUrl # None => finalUrl[1] = UrlWith("%20")

\* C14 amended: the same URL, a space in a name or value written "+".
C14_UrlSpaceAsPlus ==
    finalUrl # None => finalUrl[1] = UrlWith("+")

\* queryParams {page: 1, q: "a b"} on a path that holds a "?" already
C14_Witness ==
    /\ pc # "Idle"
    /\ options.queryParams =
          Some(<<Entry(<<"page">>, QNumber(1)), Entry(<<"q">>, QString(<<"a", " ", "b">>))>>)
    /\ finalUrl = Some(<<"https://api.test", "/users", "?", "page", "=", "1",
                         "?", "page", "=", "1", "&", "q", "=", "a", "+", "b">>)

\* C15: with a timeout and retries > 0 every attempt is sent with a cancellation
\* handle that is not aborted when the attempt is sent, whatever the timeout
\* did to the attempts before it.
C15_AttemptSentNotAborted ==
    (TimeoutArmed /\ maxRetries > 0) =>
        \A i \in 1..Len(requests) : ~requests[i].signalAborted

\* C16: a body that is a string, a Blob, an ArrayBuffer or a FormData when the
\* request is assembled reaches fetch() as it is, and the headers with it:
\* nothing is JSON-serialized and no Content-Type is set.
C16_SerializedBodyUntouched ==
    LET before == AfterOnRequest(Assembled)
    IN  (config # None /\ before.body # None
            /\ before.body[1].kind \in {"string", "Blob", "ArrayBuffer", "FormData"}) =>
            /\ config[1].body = before.body
            /\ config[1].headers = before.headers

\* C17: with a retry budget N >= 0 the loop keeps 0 <= attempt <= N, the
\* fallback error after the loop is never thrown, and a call that failed
\* failed with the error of one of the attempts it sent.
C17_LoopBoundedFailureFromAttempt ==
    maxRetries >= 0 =>
        /\ 0 <= attempt /\ attempt <= maxRetries
        /\ thrown # Some(FallbackError)
        /\ pc = "Failed" =>
              \E i \in EventsOf("fail") :
                  /\ thrown = events[i].err
                  /\ \E j \in EventsOf("send") : j < i /\ events[j].n = events[i].n

\* C18: a call invokes onRequest once, before its first request and never
\* again, when the interceptor is configured and never when it is not, and
\* every request of the call, retries included, goes to the same URL with the
\* same config, the one onRequest returned into.
C18_OnRequestOnceSameRequest ==
    /\ onRequestCalls =
          IF pc # "Idle" /\ onRequestOf(interceptors) # None THEN 1 ELSE 0
    /\ Len(requests) = sendCount
    /\ \A i \in 1..Len(requests) :
          /\ requests[i].url = finalUrl[1]
          /\ requests[i].config = config[1]
          /\ requests[i].config = FinalConfig

\* a third attempt, sent with the method the interceptor returned at the start
C18_Witness ==
    /\ Len(requests) = 3
    /\ onRequestCalls = 1
    /\ requests[3].config.method = Some("PUT")
    /\ requests[3] = [requests[1] EXCEPT !.signalAborted = requests[3].signalAborted]

\* C19: no setter of the hook (setData, setError, setIsLoading) is called
\* once the component has unmounted.
C19_NoUpdateAfterUnmount ==
    hook # None =>
        \A i \in 1..Len(hook.updates) : hook.updates[i].mounted

\* C20: an invocation of useFetchSuspense made while no request for the
\* url/options has settled throws the promise, one made after a request has
\* settled returns the value or throws the error, and the invocations made
\* after the first issue no request of their own.
C20_SuspendsThenReturns ==
    suspense # None =>
        \A i \in 1..Len(suspense.invocations) :
            LET invocation == suspense.invocations[i]
            IN  /\ invocation.settledBefore = {} => invocation.outcome = "threwPromise"
                /\ invocation.settledBefore # {} =>
                      invocation.outcome \in {"returned", "threwError"}
                /\ invocation.request = 1

RECURSIVE ConfigAfter(_)
\* the global config after the first k configureArcX calls of configLog
ConfigAfter(k) ==
    IF k = 0 THEN ConfigAtFirst
    ELSE ObjectAssign(ConfigAfter(k - 1), configLog[k])

\* C21: whatever configureArcX calls are made while a call is in flight, the
\* call's URL, its config (merged headers, body, method) and its three
\* interceptors are those of the global config of the moment the call started,
\* in every request it sends and in what it returns or throws; a call started
\* after a configureArcX call is under the new config.
C21_CallKeepsConfigOfItsStart ==
    pc # "Idle" =>
        LET g == startConfig[1]
            i == g.interceptors
            sent == AttachSignal(NormalizeBody(AssignOnRequest(i, AssembledUnder(g))))
        IN  /\ \E k \in 0..Len(configLog) : g = ConfigAfter(k)
            /\ Len(requests) >= 1
            /\ g = ConfigAfter(requests[1].configCalls)
            /\ finalUrl = Some(UrlUnder(g))
            /\ config = Some(sent)
            /\ interceptors = i
            /\ \A r \in 1..Len(requests) :
                  requests[r].url = UrlUnder(g) /\ requests[r].config = sent
            /\ onRequestCalls = IF onRequestOf(i) = None THEN 0 ELSE 1
            /\ Cardinality(EventsOf("onError")) =
                  IF onErrorOf(i) = "unset" THEN 0 ELSE Cardinality(EventsOf("fail"))
            /\ thrown = Some(OnErrorError) => onErrorOf(i) = "throws"
            /\ thrown = Some(OnResponseError) => onResponseOf(i) \in {"throws", "rejects"}
            /\ pc = "Succeeded" =>
                  returned = Some(IF onResponseOf(i) = "unset" THEN "parsed"
                                  ELSE "transformed")

\* a call started under the first config whose first attempt failed, that was
\* reconfigured in every field before its retry, and whose retry went to the
\* old URL with the old config and returned through the old onResponse
C21_Witness ==
    /\ pc = "Succeeded"
    /\ Len(requests) = 2
    /\ requests[1].configCalls = 0
    /\ requests[2].configCalls = 1
    /\ configLog[1].baseUrl = Some(None)
    /\ onResponseOf(globalConfig.interceptors) = "rejects"
    /\ globalConfig.baseUrl = None
    /\ requests[2].url = <<"https://api.test", "/users", "?", "page", "=", "1">>
    /\ requests[2].config.method = Some("PUT")
    /\ Cardinality(EventsOf("onError")) = 1
    /\ returned = Some("transformed")

\* C22: while a mounted component has a fetch in flight isLoading is true, and
\* once every fetch it issued has settled, data and error are those of the
\* fetch issued last: its error, or its result and no error.
C22_LatestFetchWins ==
    (hook # None /\ hook.phase = "mounted") =>
        /\ hook.inFlight # {} => hook.isLoading
        /\ (hook.inFlight = {} /\ hook.issued >= 1) =>
              \/ hook.error = Some(hook.issued)
              \/ hook.data = Some(hook.issued) /\ hook.error = None

====
